---- MODULE Spec2Model ----
(***************************************************************************)
(* A model of removepii.py: the detection-and-redaction engine             *)
(* (getNE, getIDInfo, cleanString) and the file pipeline (extract,         *)
(* cleanFile, writeFile).                                                  *)
(*                                                                         *)
(* A text is a sequence of one-character strings.  The pretrained NLTK     *)
(* tagger/chunker is an external model: its answer for a text is a         *)
(* nondeterministic choice of a flat tree of labelled token spans.  The    *)
(* iteration order of a Python set of strings depends on the per-process   *)
(* string hash seed, so the loop of cleanString takes the PII strings in   *)
(* any order.                                                              *)
(***************************************************************************)
EXTENDS Integers, Sequences, FiniteSets, TLC

VARIABLES
    text,       \* the text given to cleanString (or read by extract)
    fileExt,    \* extract: ext, the suffix of filePath ("" outside cleanFile)
    piiNE,      \* argument piiNE of the call
    piiNums,    \* argument piiNums of the call
    mode,       \* "none" | "string" (cleanString called directly) | "file" (cleanFile)
    pc,         \* position of the running call
    piiSet,     \* cleanString: piiSet
    cleaned,    \* cleanString: cleaned
    neInfo,     \* value returned by the last getNE
    idInfo,     \* value returned by the last getIDInfo
    compiled,   \* regexes compiled by the last getIDInfo
    outFile,    \* content of the file at outputPath
    err,        \* exception that left the call, "" when none
    nltkPath,   \* process global nltk.data.path
    defaults,   \* the default argument lists of cleanString / cleanFile
    calls       \* number of cleanString calls made by this process

vars == <<text, fileExt, piiNE, piiNums, mode, pc, piiSet, cleaned,
          neInfo, idInfo, compiled, outFile, err, nltkPath, defaults, calls>>

----------------------------------------------------------------------------
(* Bounds of the model *)

\* texts of the redaction specification hold at most MaxWords words
MaxWords == 3
\* cleanString calls one process makes in the session specification
MaxCalls == 2

----------------------------------------------------------------------------
(* Characters *)

Digits == {"0", "1", "2", "3", "4", "5", "6", "7", "8", "9"}
Lower == {"a", "b", "c", "d", "e", "f", "g", "h", "i", "j", "k", "l", "m",
          "n", "o", "p", "q", "r", "s", "t", "u", "v", "w", "x", "y", "z"}
Upper == {"A", "B", "C", "D", "E", "F", "G", "H", "I", "J", "K", "L", "M",
          "N", "O", "P", "Q", "R", "S", "T", "U", "V", "W", "X", "Y", "Z"}
\* the characters \s matches
Whitespace == {" ", "\t", "\n", "\r", "\f"}

IsDigit(c) == c \in Digits
IsAlpha(c) == c \in Lower \cup Upper
IsSpace(c) == c \in Whitespace

\* the replacement string of cleanString
Marker == <<"X", "X", "X", "X", "X">>

----------------------------------------------------------------------------
(* Strings *)

\* s has t at position i (1-based)
OccursAt(s, t, i) ==
    /\ i >= 1
    /\ i + Len(t) - 1 <= Len(s)
    /\ \A k \in 1..Len(t) : s[i + k - 1] = t[k]

\* t in s
Contains(s, t) == \E i \in 1..(Len(s) - Len(t) + 1) : OccursAt(s, t, i)

\* the first position >= i at which s has t, 0 if there is none
Find(s, t, i) ==
    LET occ == {k \in i..(Len(s) - Len(t) + 1) : OccursAt(s, t, k)}
    IN  IF occ = {} THEN 0 ELSE CHOOSE k \in occ : \A m \in occ : k <= m

\* the scan resumes one character too far after each replacement
RECURSIVE ReplaceFromSkipsOne(_, _, _, _)
ReplaceFromSkipsOne(s, old, new, i) ==
    LET k == Find(s, old, i)
    IN  IF k = 0 THEN SubSeq(s, i, Len(s))
        ELSE SubSeq(s, i, k - 1) \o new \o ReplaceFromSkipsOne(s, old, new, k + Len(old) + 1)

\* the scan of str.replace from position i: copy up to the next occurrence of
\* old, put new, resume after the occurrence
RECURSIVE ReplaceFrom(_, _, _, _)
ReplaceFrom(s, old, new, i) ==
    LET k == Find(s, old, i)
    IN  IF k = 0 THEN SubSeq(s, i, Len(s))
        ELSE SubSeq(s, i, k - 1) \o new \o ReplaceFrom(s, old, new, k + Len(old))

\* Only the first occurrence is replaced (str.replace with count = 1).
ReplaceFirstOnly(s, old, new) ==
    LET k == Find(s, old, 1)
    IN  IF k = 0 THEN s
        ELSE SubSeq(s, 1, k - 1) \o new \o SubSeq(s, k + Len(old), Len(s))

\* str.replace(old, new) for a nonempty old: every non-overlapping occurrence,
\* leftmost first
Replace(s, old, new) == ReplaceFrom(s, old, new, 1)

\* " ".join(words)
RECURSIVE Join(_)
Join(words) ==
    IF Len(words) = 0 THEN <<>>
    ELSE IF Len(words) = 1 THEN words[1]
    ELSE words[1] \o <<" ">> \o Join(Tail(words))

----------------------------------------------------------------------------
(* getNE *)

AllNE == {"PERSON", "ORGANIZATION", "GPE", "LOCATION"}
AllNums == {"PHONE", "EMAIL", "SSN"}

\* labels the chunker gives in the model
ChunkLabels == {"PERSON", "ORGANIZATION"}

\* characters nltk.word_tokenize makes a token of their own
IsOwnToken(c) ==
    c \in {"(", ")", "[", "]", "{", "}", "<", ">", "@", "%", ";", "#", "$", "&", "?", "!"}

\* nltk.word_tokenize on the texts of the model (no sentence-final period, no
\* comma, colon or quote): tokens are separated by whitespace, and brackets and
\* the signs above are tokens of their own
RECURSIVE TokenizeFrom(_, _, _)
TokenizeFrom(s, i, cur) ==
    LET flush == IF cur = <<>> THEN <<>> ELSE <<cur>>
    IN  IF i > Len(s) THEN flush
        ELSE IF IsSpace(s[i]) THEN flush \o TokenizeFrom(s, i + 1, <<>>)
        ELSE IF IsOwnToken(s[i]) THEN flush \o <<<<s[i]>>>> \o TokenizeFrom(s, i + 1, <<>>)
        ELSE TokenizeFrom(s, i + 1, Append(cur, s[i]))

Tokenize(s) == TokenizeFrom(s, 1, <<>>)

\* the trees nltk.ne_chunk can return over tokens i..n: sets of disjoint
\* labelled spans of consecutive tokens
RECURSIVE Chunkings(_, _)
Chunkings(i, n) ==
    IF i > n THEN {{}}
    ELSE Chunkings(i + 1, n) \cup
         UNION { { {[lo |-> i, hi |-> j, label |-> l]} \cup c : c \in Chunkings(j + 1, n) }
                 : <<j, l>> \in (i..n) \X ChunkLabels }

\* every subtree is kept whatever its label
GetNENoFilter(t, ne, tree) ==
    LET tokens == Tokenize(t)
    IN  { Join(SubSeq(tokens, sub.lo, sub.hi)) : sub \in tree }

\* getNE(text, piiNE), tree being the chunker's answer for text
GetNE(t, ne, tree) ==
    LET tokens == Tokenize(t)
        filterPII(x) == x.label \in ne
    IN  { Join(SubSeq(tokens, sub.lo, sub.hi)) : sub \in {x \in tree : filterPII(x)} }

----------------------------------------------------------------------------
(* getIDInfo: the three regular expressions, matched as re matches them *)

\* the character of s at i, "" outside s
CharAt(s, i) == IF i \in 1..Len(s) THEN s[i] ELSE ""

\* \d{n} at i
DigitsAt(s, i, n) ==
    /\ i >= 1
    /\ i + n - 1 <= Len(s)
    /\ \A k \in 0..(n - 1) : IsDigit(s[i + k])

\* the end (exclusive) of the longest run of characters of the class cls from i
RunEnd(s, i, cls) ==
    CHOOSE j \in i..(Len(s) + 1) :
        /\ \A k \in i..(j - 1) : s[k] \in cls
        /\ (j = Len(s) + 1 \/ s[j] \notin cls)

\* a separator that is any character but a digit
IsSepAnyNonDigit(c) == c # "" /\ ~IsDigit(c)

\* (\s|-|\.)
IsSep(c) == IsSpace(c) \/ c = "-" \/ c = "."

\* (\d{3}) (\s|-|\.) (\d{4}) at b: the end (exclusive) of the match, 0 if none
PhoneCoreEnd(s, b) ==
    IF DigitsAt(s, b, 3) /\ IsSep(CharAt(s, b + 3)) /\ DigitsAt(s, b + 4, 4)
    THEN b + 8 ELSE 0

\* \s*(\d{2,5}) at k: the end of the match, 0 if none
ExtDigitsEnd(s, k) ==
    LET d == RunEnd(s, k, Whitespace)
        n == RunEnd(s, d, Digits) - d
    IN  IF n >= 2 THEN d + (IF n > 5 THEN 5 ELSE n) ELSE 0

\* (\s*(ext|x|ext.)\s*(\d{2,5}))? at e: the end of the match (e if the group is skipped)
PhoneExtEnd(s, e) ==
    LET j == RunEnd(s, e, Whitespace)
        isExt == OccursAt(s, <<"e", "x", "t">>, j)
        alt1 == IF isExt THEN ExtDigitsEnd(s, j + 3) ELSE 0
        alt2 == IF CharAt(s, j) = "x" THEN ExtDigitsEnd(s, j + 1) ELSE 0
        alt3 == IF isExt /\ CharAt(s, j + 3) \notin {"", "\n"}
                THEN ExtDigitsEnd(s, j + 4) ELSE 0
    IN  IF alt1 # 0 THEN alt1
        ELSE IF alt2 # 0 THEN alt2
        ELSE IF alt3 # 0 THEN alt3
        ELSE e

\* phoneRegex at i: the end (exclusive) of the match, 0 if none.  The optional
\* groups are greedy: the area code is tried before its absence, and for each
\* the separator before its absence.
PhoneEnd(s, i) ==
    LET a == IF DigitsAt(s, i, 3) THEN i + 3
             ELSE IF CharAt(s, i) = "(" /\ DigitsAt(s, i + 1, 3) /\ CharAt(s, i + 4) = ")"
                  THEN i + 5
                  ELSE i
        \* starts of (\d{3}) in the order re tries them
        starts == (IF a # i
                   THEN (IF IsSep(CharAt(s, a)) THEN <<a + 1, a>> ELSE <<a>>)
                   ELSE <<>>)
                  \o (IF IsSep(CharAt(s, i)) THEN <<i + 1, i>> ELSE <<i>>)
        ok == {k \in 1..Len(starts) : PhoneCoreEnd(s, starts[k]) # 0}
    IN  IF ok = {} THEN 0
        ELSE LET k == CHOOSE x \in ok : \A y \in ok : x <= y
             IN  PhoneExtEnd(s, PhoneCoreEnd(s, starts[k]))

\* [a-zA-Z0-9._%+-]
UserChars == Lower \cup Upper \cup Digits \cup {".", "_", "%", "+", "-"}
\* [a-zA-Z0-9.-]
DomainChars == Lower \cup Upper \cup Digits \cup {".", "-"}

\* emailRegex at i: the end (exclusive) of the match, 0 if none.  The domain is
\* greedy and gives characters back until (\.[a-zA-Z]{2,4}) matches.
EmailEnd(s, i) ==
    LET u == RunEnd(s, i, UserChars)
        d == RunEnd(s, u + 1, DomainChars)
        \* positions of the dot of (\.[a-zA-Z]{2,4})
        dots == {p \in (u + 2)..(d - 1) :
                    /\ s[p] = "."
                    /\ RunEnd(s, p + 1, Lower \cup Upper) - (p + 1) >= 2}
    IN  IF i > Len(s) \/ u = i \/ CharAt(s, u) # "@" \/ dots = {} THEN 0
        ELSE LET p == CHOOSE x \in dots : \A y \in dots : y <= x
                 n == RunEnd(s, p + 1, Lower \cup Upper) - (p + 1)
             IN  p + 1 + (IF n > 4 THEN 4 ELSE n)

\* the SSN pattern without its negative lookaheads
SsnEndNoLookahead(s, i) ==
    IF /\ DigitsAt(s, i, 3)
       /\ CharAt(s, i + 3) = "-"
       /\ DigitsAt(s, i + 4, 2)
       /\ CharAt(s, i + 6) = "-"
       /\ DigitsAt(s, i + 7, 4)
    THEN i + 11 ELSE 0

\* ssnRegex at i: the end (exclusive) of the match, 0 if none
SsnEnd(s, i) ==
    IF /\ ~( \/ OccursAt(s, <<"6", "6", "6">>, i)
             \/ OccursAt(s, <<"0", "0", "0">>, i)
             \/ (CharAt(s, i) = "9" /\ DigitsAt(s, i + 1, 2)) )
       /\ DigitsAt(s, i, 3)
       /\ CharAt(s, i + 3) = "-"
       /\ ~OccursAt(s, <<"0", "0">>, i + 4)
       /\ DigitsAt(s, i + 4, 2)
       /\ CharAt(s, i + 6) = "-"
       /\ ~OccursAt(s, <<"0", "0", "0", "0">>, i + 7)
       /\ DigitsAt(s, i + 7, 4)
    THEN i + 11 ELSE 0

MatchEnd(kind, s, i) ==
    CASE kind = "PHONE" -> PhoneEnd(s, i)
      [] kind = "EMAIL" -> EmailEnd(s, i)
      [] kind = "SSN" -> SsnEnd(s, i)

\* getMatches(pattern, t) from position i on: pattern.findall scans left to
\* right for non-overlapping matches, and the whole match (group 1) is kept
RECURSIVE GetMatchesFrom(_, _, _)
GetMatchesFrom(kind, t, i) ==
    IF i > Len(t) THEN {}
    ELSE LET e == MatchEnd(kind, t, i)
         IN  IF e = 0 THEN GetMatchesFrom(kind, t, i + 1)
             ELSE {SubSeq(t, i, e - 1)} \cup GetMatchesFrom(kind, t, e)

GetMatches(kind, t) == GetMatchesFrom(kind, t, 1)

\* the patterns getIDInfo has compiled when it returns
Compiled(types) ==
    LET phone == "PHONE" \in types
        email == "EMAIL" \in types
        ssn == "SSN" \in types
    IN  IF ~(phone \/ email \/ ssn) THEN {}
        ELSE (IF phone THEN {"phoneRegex"} ELSE {})
             \cup (IF email THEN {"emailRegex"} ELSE {})
             \cup (IF ssn THEN {"ssnRegex"} ELSE {})

\* getIDInfo(text, types)
GetIDInfo(t, types) ==
    LET phone == "PHONE" \in types
        email == "EMAIL" \in types
        ssn == "SSN" \in types
    IN  IF ~(phone \/ email \/ ssn) THEN {}
        ELSE (IF phone THEN GetMatches("PHONE", t) ELSE {})
             \cup (IF email THEN GetMatches("EMAIL", t) ELSE {})
             \cup (IF ssn THEN GetMatches("SSN", t) ELSE {})

----------------------------------------------------------------------------
(* cleanString *)

\* the orders in which a for loop can visit the set S
RECURSIVE Orders(_)
Orders(S) ==
    IF S = {} THEN {<<>>}
    ELSE UNION { {<<x>> \o o : o \in Orders(S \ {x})} : x \in S }

\* the for loop of cleanString visiting the PII strings in the order o, from
\* the k-th on
RECURSIVE ReplaceAllFrom(_, _, _)
ReplaceAllFrom(s, o, k) ==
    IF k > Len(o) THEN s
    ELSE ReplaceAllFrom(Replace(s, o[k], Marker), o, k + 1)

\* each iteration replaces in text instead of cleaned, so only the last
\* replacement is kept
RedactInOrderFromText(t, o) ==
    IF Len(o) = 0 THEN t ELSE Replace(t, o[Len(o)], Marker)

\* cleaned = text; for pii in piiSet: cleaned = cleaned.replace(pii, "XXXXX")
RedactInOrder(t, o) == ReplaceAllFrom(t, o, 1)

\* os.getcwd()
Cwd == "cwd"

\* the body of cleanString(text, verbose, piiNE, piiNums), returning to pc = to
CleanStringBody(to) ==
    \E ne \in {GetNE(text, piiNE, tree) : tree \in Chunkings(1, Len(Tokenize(text)))},
       id \in {GetIDInfo(text, piiNums)} :
            \E o \in Orders(ne \cup id) :
                /\ nltkPath' = Append(nltkPath, Cwd)
                /\ neInfo' = ne
                /\ idInfo' = id
                /\ compiled' = Compiled(piiNums)
                /\ piiSet' = ne \cup id
                /\ cleaned' = RedactInOrder(text, o)
                /\ calls' = calls + 1
                /\ pc' = to
                /\ UNCHANGED <<text, fileExt, piiNE, piiNums, outFile, err, defaults>>

\* cleanString when the NLTK model data cannot be loaded: getNE has extended
\* nltk.data.path, nltk raises LookupError, getIDInfo is not reached
CleanStringRaises ==
    /\ nltkPath' = Append(nltkPath, Cwd)
    /\ calls' = calls + 1
    /\ err' = "LookupError"
    /\ pc' = "failed"
    /\ UNCHANGED <<text, fileExt, piiNE, piiNums, piiSet, cleaned, neInfo,
                   idInfo, compiled, outFile, defaults>>

\* cleanString(text, piiNE = ..., piiNums = ...) called by the user
CleanString ==
    /\ pc = "idle"
    /\ mode' = "string"
    /\ CleanStringBody("done")

CleanStringError ==
    /\ pc = "idle"
    /\ mode' = "string"
    /\ CleanStringRaises

Next ==
    \/ CleanString
    \/ CleanStringError

----------------------------------------------------------------------------
(* extract, writeFile, cleanFile *)

\* suffixes of filePath in the model
FileExts == {".txt", ".md", ".pdf", ".html", ".htm", ".docx", ""}

\* extract falls through every branch and returns None instead of raising
ExtractRaisesNever(ext) == FALSE

\* extract(filePath) reaches its raise ValueError
ExtractRaises(ext) ==
    ~( \/ (ext = ".txt" \/ ext = ".md")
       \/ ext = ".pdf"
       \/ (ext = ".html" \/ ext = ".htm") )

\* cleanFile: text = extract(filePath)
Extract ==
    /\ pc = "idle"
    /\ mode' = "file"
    /\ \E ext \in FileExts :
        /\ fileExt' = ext
        /\ IF ExtractRaises(ext)
           THEN pc' = "failed" /\ err' = "ValueError"
           ELSE pc' = "extracted" /\ err' = err
    /\ UNCHANGED <<text, piiNE, piiNums, piiSet, cleaned, neInfo, idInfo,
                   compiled, outFile, nltkPath, defaults, calls>>

\* extract: open(filePath) or the PDF/HTML reader raises
ExtractIOError ==
    /\ pc = "idle"
    /\ mode' = "file"
    /\ \E ext \in FileExts :
        /\ ~ExtractRaises(ext)
        /\ fileExt' = ext
    /\ pc' = "failed"
    /\ err' = "OSError in extract"
    /\ UNCHANGED <<text, piiNE, piiNums, piiSet, cleaned, neInfo, idInfo,
                   compiled, outFile, nltkPath, defaults, calls>>

\* cleanFile: cleaned = cleanString(text, verbose, piiNE, piiNums)
CleanFileCleanString ==
    /\ pc = "extracted"
    /\ mode' = mode
    /\ CleanStringBody("cleaned")

CleanFileCleanStringError ==
    /\ pc = "extracted"
    /\ mode' = mode
    /\ CleanStringRaises

\* cleanFile: writeFile(cleaned, outputPath)
WriteFile ==
    /\ pc = "cleaned"
    /\ outFile' = cleaned
    /\ pc' = "done"
    /\ UNCHANGED <<text, fileExt, piiNE, piiNums, mode, piiSet, cleaned,
                   neInfo, idInfo, compiled, err, nltkPath, defaults, calls>>

\* writeFile raises: open(path, "w") failed (the file is as it was) or
\* file.write failed after open truncated the file
WriteFileError ==
    /\ pc = "cleaned"
    /\ outFile' \in {outFile, <<>>}
    /\ pc' = "failed"
    /\ err' = "OSError in writeFile"
    /\ UNCHANGED <<text, fileExt, piiNE, piiNums, mode, piiSet, cleaned,
                   neInfo, idInfo, compiled, nltkPath, defaults, calls>>

NextFile ==
    \/ Extract
    \/ ExtractIOError
    \/ CleanFileCleanString
    \/ CleanFileCleanStringError
    \/ WriteFile
    \/ WriteFileError

----------------------------------------------------------------------------
(* A process that calls cleanString several times *)

\* the previous call has returned or raised; its locals are gone
NextCall ==
    /\ pc \in {"done", "failed"}
    /\ mode = "string"
    /\ calls < MaxCalls
    /\ pc' = "idle"
    /\ piiSet' = {}
    /\ cleaned' = <<>>
    /\ neInfo' = {}
    /\ idInfo' = {}
    /\ compiled' = {}
    /\ err' = ""
    /\ UNCHANGED <<text, fileExt, piiNE, piiNums, mode, outFile, nltkPath, defaults,
                   calls>>

NextSession ==
    \/ CleanString
    \/ CleanStringError
    \/ NextCall

----------------------------------------------------------------------------
(* Inputs *)

Words == { <<"a", "b">>, <<"b", "a">>, <<"a", "b", "a">>, <<"c">>, <<"X">> }

\* texts of 1..n words separated by single spaces
RECURSIVE WordTexts(_)
WordTexts(n) ==
    IF n <= 0 THEN {}
    ELSE IF n = 1 THEN Words
    ELSE WordTexts(n - 1) \cup
         {t \o <<" ">> \o w : t \in (WordTexts(n - 1) \ WordTexts(n - 2)), w \in Words}

\* texts around a phone number: area code, separator, 3 digits, separator,
\* 4 digits, extension
SepChars == {" ", "-", ".", "\t", "\n", "a", "/"}

PhoneTexts ==
    { area \o s1 \o <<"5", "5", "5">> \o <<s2>> \o <<"1", "2", "3", "4">> \o ext :
        area \in {<<>>, <<"8", "0", "0">>, <<"(", "8", "0", "0", ")">>},
        s1 \in {<<>>} \cup {<<c>> : c \in SepChars},
        s2 \in SepChars,
        ext \in {<<>>, <<" ", "x", "1", "2">>} }

EmailTexts ==
    { <<"a", "@", "b", ".", "c", "o">>,
      <<"a", "@", "b">>,
      <<"a", ".", "b", "+", "c", "@", "d", "-", "e", ".", "c", "o", ".", "u", "k">>,
      <<"8", "0", "0", "-", "5", "5", "5", "-", "1", "2", "3", "4", "@", "b", ".", "c", "o", "m">> }

\* the phone texts without area code and extension, and the short e-mail texts
ShortIDTexts == {t \in PhoneTexts \cup EmailTexts : Len(t) <= 9}

\* nltk.data.path when the module has been imported
InitialNltkPath == <<"nltk_data">>

\* content of the file at outputPath before the run
OldOutput == <<"o", "l", "d">>

InitState ==
    /\ fileExt = ""
    /\ mode = "none"
    /\ pc = "idle"
    /\ piiSet = {}
    /\ cleaned = <<>>
    /\ neInfo = {}
    /\ idInfo = {}
    /\ compiled = {}
    /\ outFile = OldOutput
    /\ err = ""
    /\ nltkPath = InitialNltkPath
    /\ defaults = [piiNE |-> AllNE, piiNums |-> AllNums]
    /\ calls = 0

Init ==
    /\ text \in WordTexts(MaxWords) \cup ShortIDTexts
    /\ piiNE \in {{}, {"PERSON"}, AllNE}
    /\ piiNums \in {{}, AllNums}
    /\ InitState

Spec == Init /\ [][Next]_vars

\* named entities are looked for in the shorter texts only
InitID ==
    /\ \E in \in ((PhoneTexts \cup EmailTexts) \X {{}}) \cup (ShortIDTexts \X {AllNE}) :
        text = in[1] /\ piiNE = in[2]
    /\ piiNums \in {{}, {"PHONE"}, AllNums}
    /\ InitState

\* getIDInfo on texts with phone numbers and e-mail addresses
SpecID == InitID /\ [][Next]_vars

InitSmall ==
    /\ text \in ShortIDTexts
    /\ piiNE \in {{}, AllNE}
    /\ piiNums \in {{}, AllNums}
    /\ InitState

\* cleanFile on a file holding one of the shorter texts
SpecFile == InitSmall /\ [][NextFile]_vars

\* several cleanString calls in one process
SpecSession == InitSmall /\ [][NextSession]_vars

\* texts of the shape DDD-DD-DDDD
SSNTexts ==
    { <<a, b, c, "-", d, e, "-", f, g, h, i>> :
        <<a, b, c>> \in {"0", "1", "6", "9"} \X {"0", "1", "6", "9"} \X {"0", "1", "6", "9"},
        <<d, e>> \in {"0", "1"} \X {"0", "1"},
        <<f, g, h, i>> \in {"0", "1"} \X {"0", "1"} \X {"0", "1"} \X {"0", "1"} }

\* the numbers of the identifier exclusion examples
SSNExamples ==
    { <<"6", "6", "6", "-", "1", "2", "-", "3", "4", "5", "6">>,
      <<"1", "2", "3", "-", "0", "0", "-", "4", "5", "6", "7">>,
      <<"1", "2", "3", "-", "4", "5", "-", "0", "0", "0", "0">>,
      <<"1", "2", "3", "-", "4", "5", "-", "6", "7", "8", "9">> }

InitSSN ==
    /\ text \in SSNTexts \cup SSNExamples
    /\ piiNE \in {{}, AllNE}
    /\ piiNums = {"SSN"}
    /\ InitState

\* getIDInfo on texts of the shape of a social security number
SpecSSN == InitSSN /\ [][Next]_vars

----------------------------------------------------------------------------
(* Properties *)

\* no string of S holds the character the marker is made of
MarkerFree(S) == \A p \in S : \A i \in 1..Len(p) : p[i] # "X"

\* a nonempty proper suffix of p is a prefix of q
SuffixIsPrefix(p, q) ==
    \E n \in 1..(Len(p) - 1) :
        n <= Len(q) /\ SubSeq(p, Len(p) - n + 1, Len(p)) = SubSeq(q, 1, n)

NoSubstrings(S) == \A p, q \in S : p # q => ~Contains(q, p)

NoOverlaps(S) ==
    \A p, q \in S : p # q => ~Contains(q, p) /\ ~SuffixIsPrefix(p, q)

\* the orders of S from longest string to shortest
LongestFirstOrders(S) ==
    {o \in Orders(S) : \A i, j \in 1..Len(o) : i < j => Len(o[i]) >= Len(o[j])}

\* the texts obtained from t, from position i on, by replacing pairwise
\* disjoint occurrences in t of members of S with the marker
RECURSIVE RedactionsFrom(_, _, _)
RedactionsFrom(t, S, i) ==
    IF i > Len(t) THEN {<<>>}
    ELSE {<<t[i]>> \o r : r \in RedactionsFrom(t, S, i + 1)}
         \cup UNION { {Marker \o r : r \in RedactionsFrom(t, S, i + Len(p))}
                      : p \in {q \in S : OccursAt(t, q, i)} }

\* the number of occurrences of p in t
Occurrences(t, p) == Cardinality({i \in 1..Len(t) : OccursAt(t, p, i)})

Returned == pc = "done" /\ mode = "string"

\* C1: the text cleanString returns is the result of replacing the PII strings
\* from longest to shortest.
C1_LongestFirst ==
    Returned => cleaned \in {RedactInOrder(text, o) : o \in LongestFirstOrders(piiSet)}

\* C2 as stated: no member of the PII set occurs in the text cleanString
\* returns.
C2_NoPIILeft ==
    Returned => \A p \in piiSet : ~Contains(cleaned, p)

\* C2 amended: when no PII string holds the marker's character X, no member of
\* the PII set occurs in the text cleanString returns, whatever the order of
\* the loop and however often a string occurs.
C2_NoPIILeftMarkerFree ==
    (Returned /\ MarkerFree(piiSet)) => \A p \in piiSet : ~Contains(cleaned, p)

C2_Witness ==
    /\ Returned
    /\ MarkerFree(piiSet)
    /\ Cardinality(piiSet) >= 2
    /\ \E p \in piiSet : Occurrences(text, p) >= 2
    /\ cleaned # text

\* C3 as stated: the substitution pass over the returned text, with the same
\* PII set in any order, returns it unchanged.
C3_Idempotent ==
    Returned => \A o \in Orders(piiSet) : RedactInOrder(cleaned, o) = cleaned

\* C3 amended: when no PII string holds the marker's character X, the
\* substitution pass over the returned text with the same PII set in any order
\* (or with the empty set) returns it unchanged.
C3_IdempotentMarkerFree ==
    (Returned /\ MarkerFree(piiSet)) =>
        /\ \A o \in Orders(piiSet) : RedactInOrder(cleaned, o) = cleaned
        /\ RedactInOrder(cleaned, <<>>) = cleaned

C3_Witness ==
    /\ Returned
    /\ MarkerFree(piiSet)
    /\ Cardinality(piiSet) >= 2
    /\ \E p \in piiSet : Contains(text, p) /\ ~Contains(cleaned, p)
    /\ Contains(cleaned, Marker)

\* C7 as stated: when no PII string is a substring of another, every order of
\* the loop gives the text that was returned.
C7_OrderIrrelevant ==
    (Returned /\ NoSubstrings(piiSet)) =>
        \A o \in Orders(piiSet) : RedactInOrder(text, o) = cleaned

\* C7 amended: when no PII string holds the marker's character X and no two
\* PII strings can overlap (none is a substring of another and no proper suffix
\* of one is a prefix of another), every order of the loop gives the text that
\* was returned.
C7_OrderIrrelevantNoOverlap ==
    (Returned /\ MarkerFree(piiSet) /\ NoOverlaps(piiSet)) =>
        \A o \in Orders(piiSet) : RedactInOrder(text, o) = cleaned

C7_Witness ==
    /\ Returned
    /\ MarkerFree(piiSet)
    /\ NoOverlaps(piiSet)
    /\ Cardinality(piiSet) >= 2
    /\ \A p \in piiSet : Contains(text, p)
    /\ \A p \in piiSet : ~Contains(cleaned, p)

\* C10 as stated: the returned text is the input with pairwise disjoint
\* occurrences, in the input, of PII strings replaced by the marker and every
\* other character kept.
C10_OnlyPIIAltered ==
    Returned => cleaned \in RedactionsFrom(text, piiSet, 1)

\* C10 amended: when no PII string holds the marker's character X, the returned
\* text is the input with pairwise disjoint occurrences, in the input, of PII
\* strings replaced by the marker and every other character kept.
C10_OnlyPIIAlteredMarkerFree ==
    (Returned /\ MarkerFree(piiSet)) => cleaned \in RedactionsFrom(text, piiSet, 1)

C10_Witness ==
    /\ Returned
    /\ MarkerFree(piiSet)
    /\ Cardinality(piiSet) >= 2
    /\ \E p, q \in piiSet : p # q /\ Contains(q, p)
    /\ cleaned # text
    /\ \E i \in 1..Len(cleaned) : cleaned[i] \notin {"X", " "}

\* C4: with an empty aggregated PII set cleanString returns its input; with
\* piiNums = [] getIDInfo returns the empty set and compiles no pattern; with
\* piiNE = [] getNE returns the empty set; with both the returned text is the
\* input.
C4_EmptyConfiguration ==
    Returned =>
        /\ (piiSet = {} => cleaned = text)
        /\ (piiNums = {} => idInfo = {} /\ compiled = {})
        /\ (piiNE = {} => neInfo = {})
        /\ (piiNE = {} /\ piiNums = {} => cleaned = text)

C4_Witness ==
    /\ Returned
    /\ piiNE = {}
    /\ piiNums = {}
    /\ GetIDInfo(text, AllNums) # {}
    /\ Len(Tokenize(text)) >= 2
    /\ cleaned = text

\* the three groups of a text DDD-DD-DDDD
SsnGroup1(t) == SubSeq(t, 1, 3)
SsnGroup2(t) == SubSeq(t, 5, 6)
SsnGroup3(t) == SubSeq(t, 8, 11)

SsnAllowed(t) ==
    /\ SsnGroup1(t) # <<"6", "6", "6">>
    /\ SsnGroup1(t) # <<"0", "0", "0">>
    /\ t[1] # "9"
    /\ SsnGroup2(t) # <<"0", "0">>
    /\ SsnGroup3(t) # <<"0", "0", "0", "0">>

\* C5: with only SSN enabled, getIDInfo on a text DDD-DD-DDDD returns that text
\* if and only if its first group is not 666, not 000 and not 900-999, its
\* second group is not 00 and its third group is not 0000; otherwise it returns
\* nothing.
C5_SsnExclusions ==
    (Returned /\ piiNums = {"SSN"}) =>
        idInfo = (IF SsnAllowed(text) THEN {text} ELSE {})

C5_Witness ==
    /\ Returned
    /\ piiNums = {"SSN"}
    /\ text = <<"1", "2", "3", "-", "4", "5", "-", "6", "7", "8", "9">>
    /\ idInfo = {text}

\* m is: an optional area code (3 digits, bare or in parentheses), an optional
\* separator of seps, 3 digits, a separator of seps, 4 digits, then anything
PhoneShape(m, seps) ==
    \E a \in {0, 3, 5}, k \in {0, 1} :
        /\ a = 3 => DigitsAt(m, 1, 3)
        /\ a = 5 => CharAt(m, 1) = "(" /\ DigitsAt(m, 2, 3) /\ CharAt(m, 5) = ")"
        /\ k = 1 => CharAt(m, a + 1) \in seps
        /\ DigitsAt(m, a + k + 1, 3)
        /\ CharAt(m, a + k + 4) \in seps
        /\ DigitsAt(m, a + k + 5, 4)

\* text is 3 digits, one character, 4 digits
SevenDigitText == Len(text) = 8 /\ DigitsAt(text, 1, 3) /\ DigitsAt(text, 5, 4)

\* C9 as stated: with only PHONE enabled every match has a space, a hyphen or
\* a period for its separators, and 3 digits and 4 digits separated by any
\* other character are not matched.
C9_PhoneSeparators ==
    (Returned /\ piiNums = {"PHONE"}) =>
        /\ \A m \in idInfo : PhoneShape(m, {" ", "-", "."})
        /\ (SevenDigitText /\ text[4] \notin {" ", "-", "."} => idInfo = {})

\* C9 amended: with only PHONE enabled every match has a whitespace character
\* (a space, a tab, a newline, ...), a hyphen or a period for its separators,
\* and 3 digits and 4 digits separated by any other character are not matched.
C9_PhoneSeparatorsWhitespace ==
    (Returned /\ piiNums = {"PHONE"}) =>
        /\ \A m \in idInfo : PhoneShape(m, Whitespace \cup {"-", "."})
        /\ (SevenDigitText /\ text[4] \notin Whitespace \cup {"-", "."} => idInfo = {})

C9_Witness ==
    /\ Returned
    /\ piiNums = {"PHONE"}
    /\ text = <<"5", "5", "5", "\t", "1", "2", "3", "4">>
    /\ idInfo = {text}

SupportedExts == {".txt", ".md", ".pdf", ".html", ".htm"}

\* C6: the output file is written only once extract and cleanString have both
\* completed; when extract fails (ValueError for a suffix outside txt, md, pdf,
\* html, htm) or detection fails, the call ends with that error and the output
\* file is as it was.
C6_NoPartialSuccess ==
    /\ (outFile # OldOutput =>
            /\ fileExt \in SupportedExts
            /\ calls >= 1
            /\ err \in {"", "OSError in writeFile"}
            /\ (err = "" => pc = "done" /\ outFile = cleaned))
    /\ ((mode = "file" /\ fileExt \notin SupportedExts) =>
            pc = "failed" /\ err = "ValueError")
    /\ (err \in {"ValueError", "LookupError", "OSError in extract"} =>
            pc = "failed" /\ outFile = OldOutput)
    /\ (pc = "cleaned" => err = "" /\ outFile = OldOutput)

C6_Witness ==
    /\ mode = "file"
    /\ fileExt = ".docx"
    /\ pc = "failed"
    /\ err = "ValueError"
    /\ outFile = OldOutput

\* C8: once the first call has been made, the process-global state the calls
\* touch (nltk.data.path, the default piiNE / piiNums lists) has the value it
\* had after the first call.
C8_NoStatePersists ==
    calls >= 1 =>
        /\ nltkPath = Append(InitialNltkPath, Cwd)
        /\ defaults = [piiNE |-> AllNE, piiNums |-> AllNums]

====
